---------------------------- MODULE Spec2Model ----------------------------
(***************************************************************************)
(* Model of the wallet-tracker webhook (src/api/helius.js).                *)
(*                                                                         *)
(* One Node.js process serves the handler.  JavaScript runs a handler      *)
(* without interruption between two awaits, so a handler keeps the thread  *)
(* (running) from the moment it is entered or resumed until it awaits the  *)
(* outbound send or returns.  The only await of the handler is the one of  *)
(* postToDiscord.  The clock (nowSec, Unix seconds) may advance at any     *)
(* moment.  Amounts of SOL are kept in hundredths of a SOL (fixed point),  *)
(* stable and token amounts in display units.                              *)
(*                                                                         *)
(* Spec and SpecConcurrent run the handler on well-formed events, one      *)
(* invocation at a time and overlapping.  SpecShapes runs it on events     *)
(* with missing or wrong-shaped fields and on configurations with disabled *)
(* thresholds.  SpecCalls calls isCoolingDown, scoreEvent and the          *)
(* accounting functions on their own, on arguments drawn by its Init.      *)
(*                                                                         *)
(* SpecBigMoves runs the big-moves job (src/api/big-moves.js) of the same  *)
(* repository, with overlapping runs.  The job awaits the market data of   *)
(* each mint and the outbound post; its clock is Date.now(), milliseconds. *)
(***************************************************************************)
EXTENDS Integers, Sequences, FiniteSets, TLC

VARIABLES
    env,            \* process.env as read at module load (helius.js 5-38)
    cachedWallets,  \* helius.js 67: "null" or "loaded"
    lastAlertAt,    \* helius.js 221: Map wallet -> second of the last alert
    now,            \* helius.js 222: nowSec()
    running,        \* the handler that holds the JavaScript thread, 0 if none
    req,            \* per invocation of module.exports: its locals and position
    posted,         \* the payloads handed to fetch (helius.js 98), in order
    delivered,      \* how much input the host has handed over so far
    args,           \* the arguments of a function of the module called on its own
    ret,            \* what that call returned
    bmEnv,          \* process.env as read by the big-moves job (big-moves.js 2-8, 54, 61)
    lastPosted,     \* big-moves.js 12: Map mint -> Date.now() of the last post
    nowMs,          \* big-moves.js 14: Date.now()
    run,            \* per invocation of the big-moves job: its locals and position
    bmLog           \* the posts handed to fetch (big-moves.js 26): mint and time

heliusVars == <<env, cachedWallets, lastAlertAt, now, running, req, posted,
                delivered, args, ret>>

bmVars == <<bmEnv, lastPosted, nowMs, run, bmLog>>

vars == <<env, cachedWallets, lastAlertAt, now, running, req, posted, delivered,
          args, ret, bmEnv, lastPosted, nowMs, run, bmLog>>

---------------------------------------------------------------------------
(* Bounds of the model *)

\* how much input is delivered to the process over all requests: one per
\* event, and one per request without events
MaxEvents == 2
\* the clock starts here: Unix time is far above any configured window
StartTime == 3
\* number of seconds the clock may advance
MaxTicks == 2

\* the longest transfer list of an event handed to the accounting functions
\* when they are called on their own
MaxTransfers == 2

Handlers == {1, 2}

---------------------------------------------------------------------------
(* Program constants *)

LAMPORTS_PER_SOL == 1000000000

\* helius.js 9: ALERT_TYPES default
ALERT_TYPES == {"SWAP"}

\* helius.js 27-36: USDC and USDT
STABLE_MINTS == {"USDC", "USDT"}

\* helius.js 6: the shared secret expected in the authorization header
HELIUS_AUTH_HEADER == "secret"

\* data/tracked-wallets.json: the addresses of the watch list
TrackedWallets == {"W1", "W2"}

Abs(x) == IF x < 0 THEN -x ELSE x

Max(a, b) == IF a >= b THEN a ELSE b

\* String.prototype.toUpperCase on the type labels that occur
ToUpperCase(s) ==
    CASE s = "swap" -> "SWAP"
      [] s = "transfer" -> "TRANSFER"
      [] OTHER -> s

\* JavaScript's a || b on strings: the first one that is not empty
OrElse(a, b) == IF a # "" THEN a ELSE b

---------------------------------------------------------------------------
(* The configurations and the inputs that are enumerated *)

\* helius.js 15-17: MIN_SOL (hundredths of a SOL), MIN_STABLE, MIN_TOKEN_LEG
ThresholdChoices ==
    { [MIN_SOL |-> 25, MIN_STABLE |-> 25, MIN_TOKEN_LEG |-> 0],
      [MIN_SOL |-> 25, MIN_STABLE |-> 25, MIN_TOKEN_LEG |-> 1000] }

\* helius.js 19: COOLDOWN_SECONDS
CooldownChoices == {0, 2}

\* helius.js 20: MAX_ALERTS_PER_REQUEST
CapChoices == {0, 1, 2}

\* data/tracked-wallets.json as loadWalletsCached finds it
WalletFileChoices == {"ok", "missing", "notarray"}

\* helius.js 5: DISCORD_WEBHOOK_URL, "" when the variable is not set
WebhookChoices == {"", "https://discord/webhook"}

\* helius.js 23: PING_ROLE_ID, "" when the variable is not set
PingRoleChoices == {"", "ROLE"}

Envs ==
    { [ COOLDOWN_SECONDS |-> cd, MAX_ALERTS_PER_REQUEST |-> cap,
        MIN_SOL |-> th.MIN_SOL, MIN_STABLE |-> th.MIN_STABLE,
        MIN_TOKEN_LEG |-> th.MIN_TOKEN_LEG,
        PING_ROLE_ID |-> "", PING_SCORE |-> 8,
        DISCORD_WEBHOOK_URL |-> url, walletFile |-> wf ] :
        cd \in CooldownChoices, cap \in CapChoices, th \in ThresholdChoices,
        url \in WebhookChoices, wf \in WalletFileChoices }

NoTransfers == << >>

Native(from, to, amt) ==
    [fromUserAccount |-> from, toUserAccount |-> to, amount |-> amt]

Token(mint, from, to, amt) ==
    [mint |-> mint, fromUserAccount |-> from, toUserAccount |-> to,
     tokenAmount |-> amt]

\* an event: an absent string field is "", notArray names the transfer fields
\* of the JSON that do not hold an array (absent, null, or an object)
Event(type, feePayer, account0, native, tokens) ==
    [type |-> type, feePayer |-> feePayer, accountData0 |-> account0,
     accountKey0 |-> "", nativeTransfers |-> native, tokenTransfers |-> tokens,
     notArray |-> {}]

\* a transfer between strangers, not of a watched type
evOther == Event("TRANSFER", "W1", "", <<Native("W1", "X", 2000000000)>>, NoTransfers)
\* no actor field is populated
evNoActor == Event("SWAP", "", "", NoTransfers, NoTransfers)
\* the actor is not on the watch list
evUntracked == Event("SWAP", "X", "", <<Native("X", "W1", 2000000000)>>, NoTransfers)
\* W1 spends 2 SOL
evBuy == Event("SWAP", "W1", "", <<Native("W1", "X", 2000000000)>>, NoTransfers)
\* W1 receives 0.1 SOL and 500 tokens: below every enabled threshold
evSmall ==
    Event("swap", "W1", "", <<Native("X", "W1", 100000000)>>,
          <<Token("BONK", "X", "W1", 500)>>)
\* W2 (found in accountData) receives 100 USDC
evStable == Event("SWAP", "", "W2", NoTransfers, <<Token("USDC", "X", "W2", 100)>>)

EventPool == {evOther, evNoActor, evUntracked, evBuy, evSmall, evStable}

Batches(n) == UNION { [1..k -> EventPool] : k \in 0..n }

---------------------------------------------------------------------------
\* the account keys of the message looked at before the account data
extractFeePayerKeysFirst(e) ==
    OrElse(e.feePayer, OrElse(e.accountKey0, OrElse(e.accountData0, "")))

(* helius.js 114-121 *)
extractFeePayer(e) ==
    OrElse(e.feePayer, OrElse(e.accountData0, OrElse(e.accountKey0, "")))

\* the transfer fields taken as they come, array or not
nativeTransfersUnchecked(e) == e.nativeTransfers

tokenTransfersUnchecked(e) == e.tokenTransfers

(* helius.js 125: Array.isArray(e?.nativeTransfers) ? e.nativeTransfers : [] *)
nativeTransfers(e) ==
    IF "nativeTransfers" \in e.notArray THEN << >> ELSE e.nativeTransfers

(* helius.js 143 and 164: the same for tokenTransfers *)
tokenTransfers(e) ==
    IF "tokenTransfers" \in e.notArray THEN << >> ELSE e.tokenTransfers

(* helius.js 124-139: the sum of the lamports, then the division *)
RECURSIVE NetLamports(_, _, _)
NetLamports(ts, wallet, k) ==
    IF k > Len(ts) THEN 0
    ELSE LET t == ts[k]
             amt == t.amount
             out == IF amt # 0 /\ t.fromUserAccount = wallet THEN -amt ELSE 0
             inn == IF amt # 0 /\ t.toUserAccount = wallet THEN amt ELSE 0
         IN  out + inn + NetLamports(ts, wallet, k + 1)

\* the sum of the amounts at the indices I of a list of amounts
RECURSIVE SumAt(_, _)
SumAt(amounts, I) ==
    IF I = {} THEN 0
    ELSE LET i == CHOOSE j \in I : TRUE
         IN  amounts[i] + SumAt(amounts, I \ {i})

\* computeNetSol with sender and receiver confused
computeNetSolReversed(e, wallet) ==
    LET lamports == -NetLamports(nativeTransfers(e), wallet, 1)
        unit == LAMPORTS_PER_SOL \div 100
    IN  IF lamports < 0 THEN -((-lamports) \div unit) ELSE lamports \div unit

\* the quotient, toward zero, as hundredths of a SOL
computeNetSol(e, wallet) ==
    LET lamports == NetLamports(nativeTransfers(e), wallet, 1)
        unit == LAMPORTS_PER_SOL \div 100
    IN  IF lamports < 0 THEN -((-lamports) \div unit) ELSE lamports \div unit

(* helius.js 142-160 *)
RECURSIVE NetStable(_, _, _)
NetStable(ts, wallet, k) ==
    IF k > Len(ts) THEN 0
    ELSE LET t == ts[k]
             amt == t.tokenAmount
             counts == t.mint \in STABLE_MINTS /\ amt # 0
             out == IF counts /\ t.fromUserAccount = wallet THEN -amt ELSE 0
             inn == IF counts /\ t.toUserAccount = wallet THEN amt ELSE 0
         IN  out + inn + NetStable(ts, wallet, k + 1)

\* computeNetStable without the test of the mint
computeNetStableAnyMint(e, wallet) ==
    LET ts == tokenTransfers(e)
        amounts == [i \in DOMAIN ts |-> ts[i].tokenAmount]
    IN    SumAt(amounts, {i \in DOMAIN ts : ts[i].toUserAccount = wallet})
        - SumAt(amounts, {i \in DOMAIN ts : ts[i].fromUserAccount = wallet})

computeNetStable(e, wallet) == NetStable(tokenTransfers(e), wallet, 1)

(* helius.js 163-187: null is NoLeg *)
NoLeg == [mint |-> "", amt |-> 0]

RECURSIVE Legs(_, _, _, _)
Legs(ts, wallet, k, acc) ==
    IF k > Len(ts) THEN acc
    ELSE LET t == ts[k]
             amt == t.tokenAmount
             leg == [mint |-> t.mint, amt |-> amt]
             skip == t.mint = "" \/ amt = 0
             bin == IF ~skip /\ t.toUserAccount = wallet
                        /\ (acc.biggestIn = NoLeg \/ amt > acc.biggestIn.amt)
                    THEN leg ELSE acc.biggestIn
             bout == IF ~skip /\ t.fromUserAccount = wallet
                         /\ (acc.biggestOut = NoLeg \/ amt > acc.biggestOut.amt)
                     THEN leg ELSE acc.biggestOut
         IN  Legs(ts, wallet, k + 1, [biggestIn |-> bin, biggestOut |-> bout])

\* the legs with else-if between the two sides: a transfer of the wallet to
\* itself is an incoming leg only
RECURSIVE LegsExclusive(_, _, _, _)
LegsExclusive(ts, wallet, k, acc) ==
    IF k > Len(ts) THEN acc
    ELSE LET t == ts[k]
             amt == t.tokenAmount
             leg == [mint |-> t.mint, amt |-> amt]
             skip == t.mint = "" \/ amt = 0
             bin == IF ~skip /\ t.toUserAccount = wallet
                        /\ (acc.biggestIn = NoLeg \/ amt > acc.biggestIn.amt)
                    THEN leg ELSE acc.biggestIn
             bout == IF ~skip /\ t.toUserAccount # wallet
                         /\ t.fromUserAccount = wallet
                         /\ (acc.biggestOut = NoLeg \/ amt > acc.biggestOut.amt)
                     THEN leg ELSE acc.biggestOut
         IN  LegsExclusive(ts, wallet, k + 1, [biggestIn |-> bin, biggestOut |-> bout])

summarizeTokenLegsExclusive(e, wallet) ==
    LegsExclusive(tokenTransfers(e), wallet, 1,
                  [biggestIn |-> NoLeg, biggestOut |-> NoLeg])

\* the legs compared with >= in place of >: the last of equal amounts is kept
RECURSIVE LegsLastTie(_, _, _, _)
LegsLastTie(ts, wallet, k, acc) ==
    IF k > Len(ts) THEN acc
    ELSE LET t == ts[k]
             amt == t.tokenAmount
             leg == [mint |-> t.mint, amt |-> amt]
             skip == t.mint = "" \/ amt = 0
             bin == IF ~skip /\ t.toUserAccount = wallet
                        /\ (acc.biggestIn = NoLeg \/ amt >= acc.biggestIn.amt)
                    THEN leg ELSE acc.biggestIn
             bout == IF ~skip /\ t.fromUserAccount = wallet
                         /\ (acc.biggestOut = NoLeg \/ amt >= acc.biggestOut.amt)
                     THEN leg ELSE acc.biggestOut
         IN  LegsLastTie(ts, wallet, k + 1, [biggestIn |-> bin, biggestOut |-> bout])

summarizeTokenLegsLastTie(e, wallet) ==
    LegsLastTie(tokenTransfers(e), wallet, 1,
                [biggestIn |-> NoLeg, biggestOut |-> NoLeg])

\* summarizeTokenLegs starting from placeholder legs in place of null
summarizeTokenLegsPlaceholder(e, wallet) ==
    Legs(tokenTransfers(e), wallet, 1,
         [biggestIn |-> [mint |-> "UNKNOWN", amt |-> 0],
          biggestOut |-> [mint |-> "UNKNOWN", amt |-> 0]])

summarizeTokenLegs(e, wallet) ==
    Legs(tokenTransfers(e), wallet, 1, [biggestIn |-> NoLeg, biggestOut |-> NoLeg])

\* scoreEvent without Math.abs on netSol
scoreEventSigned(netSol, netStable, biggestIn, biggestOut) ==
    LET s == netSol
        u == Abs(netStable)
        leg == Max(Abs(biggestIn.amt), Abs(biggestOut.amt))
    IN    (IF s >= 25 THEN 1 ELSE 0) + (IF s >= 75 THEN 2 ELSE 0)
        + (IF s >= 150 THEN 3 ELSE 0) + (IF s >= 300 THEN 4 ELSE 0)
        + (IF s >= 700 THEN 6 ELSE 0)
        + (IF u >= 25 THEN 1 ELSE 0) + (IF u >= 100 THEN 2 ELSE 0)
        + (IF u >= 250 THEN 3 ELSE 0) + (IF u >= 1000 THEN 5 ELSE 0)
        + (IF leg > 0 THEN 1 ELSE 0) + (IF leg >= 1000 THEN 1 ELSE 0)
        + (IF leg >= 100000 THEN 2 ELSE 0) + (IF leg >= 1000000 THEN 3 ELSE 0)

\* scoreEvent with only the highest band of each ladder counted
scoreEventTopBand(netSol, netStable, biggestIn, biggestOut) ==
    LET s == Abs(netSol)
        u == Abs(netStable)
        leg == Max(Abs(biggestIn.amt), Abs(biggestOut.amt))
    IN    (IF s >= 700 THEN 6 ELSE IF s >= 300 THEN 4 ELSE IF s >= 150 THEN 3
           ELSE IF s >= 75 THEN 2 ELSE IF s >= 25 THEN 1 ELSE 0)
        + (IF u >= 1000 THEN 5 ELSE IF u >= 250 THEN 3 ELSE IF u >= 100 THEN 2
           ELSE IF u >= 25 THEN 1 ELSE 0)
        + (IF leg >= 1000000 THEN 3 ELSE IF leg >= 100000 THEN 2
           ELSE IF leg >= 1000 THEN 1 ELSE 0)
        + (IF leg > 0 THEN 1 ELSE 0)

(* helius.js 190-218: netSol in hundredths of a SOL *)
scoreEvent(netSol, netStable, biggestIn, biggestOut) ==
    LET s == Abs(netSol)
        u == Abs(netStable)
        leg == Max(Abs(biggestIn.amt), Abs(biggestOut.amt))
    IN    (IF s >= 25 THEN 1 ELSE 0) + (IF s >= 75 THEN 2 ELSE 0)
        + (IF s >= 150 THEN 3 ELSE 0) + (IF s >= 300 THEN 4 ELSE 0)
        + (IF s >= 700 THEN 6 ELSE 0)
        + (IF u >= 25 THEN 1 ELSE 0) + (IF u >= 100 THEN 2 ELSE 0)
        + (IF u >= 250 THEN 3 ELSE 0) + (IF u >= 1000 THEN 5 ELSE 0)
        + (IF leg > 0 THEN 1 ELSE 0) + (IF leg >= 1000 THEN 1 ELSE 0)
        + (IF leg >= 100000 THEN 2 ELSE 0) + (IF leg >= 1000000 THEN 3 ELSE 0)

(* helius.js 225-229: lastAlertAt.get(wallet) || 0, then the window *)
LastOf(map, wallet) == IF wallet \in DOMAIN map THEN map[wallet] ELSE 0

\* isCoolingDown with <= in place of <
isCoolingDownInclusive(map, wallet, t, window) ==
    IF window <= 0 THEN FALSE
    ELSE t - LastOf(map, wallet) <= window

\* isCoolingDown that never lets an entry expire
isCoolingDownAnyEntry(map, wallet, t, window) ==
    IF window <= 0 THEN FALSE
    ELSE wallet \in DOMAIN map

\* isCoolingDown with one window for all the addresses: the youngest entry
\* of the map decides
isCoolingDownShared(map, wallet, t, window) ==
    IF window <= 0 THEN FALSE
    ELSE \/ t - LastOf(map, wallet) < window
         \/ \E a \in DOMAIN map : t - map[a] < window

isCoolingDown(map, wallet, t, window) ==
    IF window <= 0 THEN FALSE
    ELSE t - LastOf(map, wallet) < window

\* markAlert that starts a new map
markAlertClobber(map, wallet, t) == [a \in {wallet} |-> t]

(* helius.js 230-232 *)
markAlert(map, wallet, t) ==
    [a \in (DOMAIN map) \cup {wallet} |-> IF a = wallet THEN t ELSE map[a]]

---------------------------------------------------------------------------
(* helius.js 375-383: the three triggers *)
triggersSol(netSol) ==
    IF env.MIN_SOL > 0 THEN Abs(netSol) >= env.MIN_SOL ELSE TRUE

\* a disabled stable dimension that never triggers
triggersStableEnabledOnly(netStable) ==
    env.MIN_STABLE > 0 /\ Abs(netStable) >= env.MIN_STABLE

triggersStable(netStable) ==
    IF env.MIN_STABLE > 0 THEN Abs(netStable) >= env.MIN_STABLE ELSE TRUE

triggersTokenLeg(legs) ==
    LET biggestLeg == Max(Abs(legs.biggestIn.amt), Abs(legs.biggestOut.amt))
    IN  IF env.MIN_TOKEN_LEG > 0 THEN biggestLeg >= env.MIN_TOKEN_LEG ELSE TRUE

\* the three triggers combined with AND
AdmittedAll(e, wallet) ==
    /\ triggersSol(computeNetSol(e, wallet))
    /\ triggersStable(computeNetStable(e, wallet))
    /\ triggersTokenLeg(summarizeTokenLegs(e, wallet))

(* helius.js 385: the event is filtered only when all three are false *)
Admitted(e, wallet) ==
    ~ (   ~triggersSol(computeNetSol(e, wallet))
       /\ ~triggersStable(computeNetStable(e, wallet))
       /\ ~triggersTokenLeg(summarizeTokenLegs(e, wallet)))

(* helius.js 358-359 *)
TypeOf(e) == ToUpperCase(OrElse(e.type, "UNKNOWN"))

\* Outcome with a cooling actor reported as filtered
OutcomeCooledAsFiltered(e) ==
    LET feePayer == extractFeePayer(e)
    IN  IF TypeOf(e) \notin ALERT_TYPES THEN "type"
        ELSE IF feePayer = "" \/ feePayer \notin TrackedWallets THEN "actor"
        ELSE IF isCoolingDown(lastAlertAt, feePayer, now, env.COOLDOWN_SECONDS)
             THEN "filtered"
        ELSE IF ~Admitted(e, feePayer) THEN "filtered"
        ELSE "emit"

\* Outcome with the trigger filter in front of the cooldown filter, and the
\* cooldown filter skipped for an event whose triggers fire
OutcomeTriggersFirst(e) ==
    LET feePayer == extractFeePayer(e)
    IN  IF TypeOf(e) \notin ALERT_TYPES THEN "type"
        ELSE IF feePayer = "" \/ feePayer \notin TrackedWallets THEN "actor"
        ELSE IF Admitted(e, feePayer) THEN "emit"
        ELSE IF isCoolingDown(lastAlertAt, feePayer, now, env.COOLDOWN_SECONDS)
             THEN "cooled"
        ELSE "filtered"

\* Outcome with the watch list consulted only for an actor that is missing
OutcomeAnyActor(e) ==
    LET feePayer == extractFeePayer(e)
    IN  IF TypeOf(e) \notin ALERT_TYPES THEN "type"
        ELSE IF feePayer = "" THEN "actor"
        ELSE IF isCoolingDown(lastAlertAt, feePayer, now, env.COOLDOWN_SECONDS)
             THEN "cooled"
        ELSE IF ~Admitted(e, feePayer) THEN "filtered"
        ELSE "emit"

(* helius.js 357-388: the filter chain of one iteration, in the order of
   the code; the result names the place where the iteration ends *)
Outcome(e) ==
    LET feePayer == extractFeePayer(e)
    IN  IF TypeOf(e) \notin ALERT_TYPES THEN "type"
        ELSE IF feePayer = "" \/ feePayer \notin TrackedWallets THEN "actor"
        ELSE IF isCoolingDown(lastAlertAt, feePayer, now, env.COOLDOWN_SECONDS)
             THEN "cooled"
        ELSE IF ~Admitted(e, feePayer) THEN "filtered"
        ELSE "emit"

\* actionLabel with the signs confused
actionLabelReversed(netSol) ==
    IF netSol > 0 THEN "BUY" ELSE IF netSol < 0 THEN "SELL" ELSE "SWAP"

(* helius.js 393-395 *)
actionLabel(netSol) ==
    IF netSol < 0 THEN "BUY" ELSE IF netSol > 0 THEN "SELL" ELSE "SWAP"

\* the role pinged only above the score, not at it
pingStrict(score) == env.PING_ROLE_ID # "" /\ score > env.PING_SCORE

(* helius.js 400-401: TRUE when the content carries the role mention *)
ping(score) == env.PING_ROLE_ID # "" /\ score >= env.PING_SCORE

(* helius.js 390-432: what is handed to postToDiscord *)
Payload(e) ==
    LET feePayer == extractFeePayer(e)
        netSol == computeNetSol(e, feePayer)
        netStable == computeNetStable(e, feePayer)
        legs == summarizeTokenLegs(e, feePayer)
        score == scoreEvent(netSol, netStable, legs.biggestIn, legs.biggestOut)
    IN  [wallet |-> feePayer, at |-> now,
         actionLabel |-> actionLabel(netSol),
         score |-> score,
         ping |-> ping(score)]

---------------------------------------------------------------------------
(* The big-moves job: configuration and state (src/api/big-moves.js) *)

\* big-moves.js 5-7
MIN_LP_USD == 15000
MIN_VOL_24H == 150000
MIN_CHANGE_1H == 150

\* big-moves.js 91: the cooldownMinutes handed to canPost
COOLDOWN_MINUTES == 120

\* the invocations of the job that may be in flight together
Runs == {1, 2}

\* big-moves.js 61-64: BM_MINTS after split, trim and filter(Boolean)
MintLists == { << >>, <<"M1">>, <<"M1", "M2">>, <<"M1", "M1">> }

\* big-moves.js 2, 8, 54, 61; the endpoint is protected by a secret
BmEnvs ==
    { [ BIG_MOVES_WEBHOOK_URL |-> url, MAX_POSTS_PER_RUN |-> cap,
        BM_CRON_SECRET |-> "cron", BM_MINTS |-> mints ] :
        url \in {"", "https://discord/big-moves"}, cap \in {1, 3},
        mints \in MintLists }

\* best when no pair is left (big-moves.js 77: [0] of an empty list)
NoPair == [name |-> "", usd |-> 0, h24 |-> 0, h1 |-> 0]

\* a run that has not been entered
RunIdle == [pc |-> "idle", idx |-> 1, posted |-> 0, status |-> 0, best |-> NoPair]

\* the job has not run
BigMovesAtRest ==
    /\ bmEnv = [ BIG_MOVES_WEBHOOK_URL |-> "", MAX_POSTS_PER_RUN |-> 3,
                 BM_CRON_SECRET |-> "", BM_MINTS |-> << >> ]
    /\ lastPosted = << >>
    /\ nowMs = COOLDOWN_MINUTES * 60 * 1000
    /\ run = [r \in Runs |-> RunIdle]
    /\ bmLog = {}

---------------------------------------------------------------------------
(* The requests *)

\* no function is called on its own
NoCall == [fn |-> "none"]

Idle ==
    [pc |-> "idle", method |-> "", authorization |-> "",
     events |-> << >>, idx |-> 1, received |-> 0,
     matchedType |-> 0, matchedTracked |-> 0, cooled |-> 0, filtered |-> 0,
     sent |-> 0, status |-> 0, resp |-> "none"]

\* a request: its method, its authorization header and its body
Requests(n) ==
    IF n <= 0 THEN {} ELSE
         { [method |-> m, authorization |-> HELIUS_AUTH_HEADER, shape |-> "array",
            items |-> << >>] : m \in {"GET", "PUT"} }
    \cup { [method |-> "POST", authorization |-> "", shape |-> "array",
            items |-> << >>] }
    \cup { [method |-> "POST", authorization |-> HELIUS_AUTH_HEADER,
            shape |-> "badjson", items |-> << >>] }
    \cup { [method |-> "POST", authorization |-> HELIUS_AUTH_HEADER,
            shape |-> "array", items |-> b] : b \in Batches(n) }
    \cup { [method |-> "POST", authorization |-> HELIUS_AUTH_HEADER,
            shape |-> "object", items |-> <<e>>] : e \in EventPool }

\* what a request takes of the input the model delivers: one per event, and
\* one for a request without events
Cost(rq) == IF Len(rq.items) = 0 THEN 1 ELSE Len(rq.items)

Init ==
    /\ env \in Envs
    /\ cachedWallets = "null"
    /\ lastAlertAt = << >>
    /\ now = StartTime
    /\ running = 0
    /\ req = [h \in Handlers |-> Idle]
    /\ posted = << >>
    /\ delivered = 0
    /\ args = NoCall
    /\ ret = NoCall
    /\ BigMovesAtRest

\* a list that cannot be read taken for a list
WalletsLoadLenient == TRUE

(* helius.js 68-90: TRUE when the list is returned, FALSE when it throws *)
WalletsLoad == cachedWallets = "loaded" \/ env.walletFile = "ok"

(* helius.js 333-355: the handler is entered and runs up to the loop *)
Receive(h, rq) ==
    /\ running = 0
    /\ req[h].pc = "idle"
    /\ \A g \in Handlers : g < h => req[g].pc # "idle"
    /\ LET entered == [req[h] EXCEPT !.method = rq.method,
                                      !.authorization = rq.authorization]
           finish(st) ==
               req' = [req EXCEPT ![h] = [entered EXCEPT !.pc = "done", !.status = st]]
       IN  IF rq.method = "GET" THEN
                finish(200) /\ UNCHANGED <<cachedWallets, running>>
           ELSE IF rq.method # "POST" THEN
                finish(405) /\ UNCHANGED <<cachedWallets, running>>
           ELSE IF HELIUS_AUTH_HEADER # "" /\ rq.authorization # HELIUS_AUTH_HEADER THEN
                finish(401) /\ UNCHANGED <<cachedWallets, running>>
           ELSE IF ~WalletsLoad THEN
                finish(500) /\ UNCHANGED <<cachedWallets, running>>
           ELSE IF rq.shape = "badjson" THEN
                finish(500) /\ cachedWallets' = "loaded" /\ UNCHANGED running
           ELSE /\ cachedWallets' = "loaded"
                /\ running' = h
                /\ req' = [req EXCEPT ![h] =
                      [entered EXCEPT !.pc = "loop", !.events = rq.items,
                                      !.received = Len(rq.items)]]
    /\ delivered' = delivered + Cost(rq)
    /\ UNCHANGED <<bmVars, env, lastAlertAt, now, posted, args, ret>>

(* helius.js 357-432: one iteration of the loop, up to its continue or to
   the await of postToDiscord *)
ProcessEvent(h) ==
    LET r == req[h]
        e == r.events[r.idx]
        o == Outcome(e)
        next == [r EXCEPT !.idx = r.idx + 1]
    IN  /\ running = h
        /\ r.pc = "loop"
        /\ r.idx <= Len(r.events)
        /\ CASE o = "type" ->
                  /\ req' = [req EXCEPT ![h] = next]
                  /\ UNCHANGED <<running, posted>>
             [] o = "actor" ->
                  /\ req' = [req EXCEPT ![h] =
                        [next EXCEPT !.matchedType = r.matchedType + 1]]
                  /\ UNCHANGED <<running, posted>>
             [] o = "cooled" ->
                  /\ req' = [req EXCEPT ![h] =
                        [next EXCEPT !.matchedType = r.matchedType + 1,
                                     !.matchedTracked = r.matchedTracked + 1,
                                     !.cooled = r.cooled + 1]]
                  /\ UNCHANGED <<running, posted>>
             [] o = "filtered" ->
                  /\ req' = [req EXCEPT ![h] =
                        [next EXCEPT !.matchedType = r.matchedType + 1,
                                     !.matchedTracked = r.matchedTracked + 1,
                                     !.filtered = r.filtered + 1]]
                  /\ UNCHANGED <<running, posted>>
             [] o = "emit" ->
                  /\ req' = [req EXCEPT ![h] =
                        [r EXCEPT !.matchedType = r.matchedType + 1,
                                  !.matchedTracked = r.matchedTracked + 1,
                                  !.pc = "await"]]
                  /\ posted' = IF env.DISCORD_WEBHOOK_URL = "" THEN posted
                               ELSE Append(posted, Payload(e))
                  /\ running' = IF env.DISCORD_WEBHOOK_URL = "" THEN h ELSE 0
        /\ UNCHANGED <<bmVars, env, cachedWallets, lastAlertAt, now, delivered, args, ret>>

\* a failure answer treated like a transport error
RejectsOnFailure(resp) == resp \in {"throw", "nonok"}

(* helius.js 98-107: fetch rejects on a transport error, and the await of
   postToDiscord throws; a response that is not ok is only logged *)
Rejects(resp) == resp = "throw"

\* the cap compared with > in place of >=
CapReachedStrict(sent) == sent > env.MAX_ALERTS_PER_REQUEST

(* helius.js 437 *)
CapReached(sent) == sent >= env.MAX_ALERTS_PER_REQUEST

\* what the await of postToDiscord can end with
Responses ==
    IF env.DISCORD_WEBHOOK_URL = "" THEN {"nourl"} ELSE {"ok", "nonok", "throw"}

(* helius.js 92-108 and 427-448: postToDiscord settles and the handler goes
   on: markAlert, sent++, the cap; a rejected promise lands in the catch.
   Without a webhook URL postToDiscord returns before any I/O, and the
   handler goes on in the same turn of the event loop *)
Deliver(h, resp) ==
    LET r == req[h]
        feePayer == extractFeePayer(r.events[r.idx])
        sent == r.sent + 1
    IN  /\ running = IF env.DISCORD_WEBHOOK_URL = "" THEN h ELSE 0
        /\ r.pc = "await"
        /\ resp \in Responses
        /\ IF Rejects(resp) THEN
                /\ req' = [req EXCEPT ![h].pc = "done", ![h].status = 500,
                                      ![h].resp = resp]
                /\ running' = 0
                /\ UNCHANGED lastAlertAt
           ELSE /\ lastAlertAt' = markAlert(lastAlertAt, feePayer, now)
                /\ IF CapReached(sent) THEN
                        /\ req' = [req EXCEPT ![h].pc = "done", ![h].status = 200,
                                              ![h].sent = sent, ![h].resp = resp]
                        /\ running' = 0
                   ELSE /\ req' = [req EXCEPT ![h].pc = "loop", ![h].sent = sent,
                                              ![h].idx = r.idx + 1, ![h].resp = resp]
                        /\ running' = h
        /\ UNCHANGED <<bmVars, env, cachedWallets, now, posted, delivered, args, ret>>

(* helius.js 438-444: the loop is over, the summary is sent *)
Return(h) ==
    /\ running = h
    /\ req[h].pc = "loop"
    /\ req[h].idx > Len(req[h].events)
    /\ req' = [req EXCEPT ![h].pc = "done", ![h].status = 200]
    /\ running' = 0
    /\ UNCHANGED <<bmVars, env, cachedWallets, lastAlertAt, now, posted, delivered, args, ret>>

(* helius.js 222-224: a second passes *)
Tick ==
    /\ now < StartTime + MaxTicks
    /\ now' = now + 1
    /\ UNCHANGED <<bmVars, env, cachedWallets, lastAlertAt, running, req, posted, delivered,
                   args, ret>>

(* the response has been sent: the locals of the invocation are gone *)
Retire(h) ==
    /\ req[h].pc = "done"
    /\ req' = [req EXCEPT ![h] = Idle]
    /\ UNCHANGED <<bmVars, env, cachedWallets, lastAlertAt, now, running, posted, delivered,
                   args, ret>>

\* no invocation is between its entry and its return
NoneInFlight == \A g \in Handlers : req[g].pc = "idle"

(* The host serves one invocation at a time: a request is handed to the
   process only when no other invocation is in flight *)
Next ==
    \/ \E h \in Handlers : \E rq \in Requests(MaxEvents - delivered) :
         NoneInFlight /\ Receive(h, rq)
    \/ \E h \in Handlers : ProcessEvent(h)
    \/ \E h \in Handlers : \E resp \in {"ok", "nonok", "throw", "nourl"} : Deliver(h, resp)
    \/ \E h \in Handlers : Return(h)
    \/ \E h \in Handlers : Retire(h)
    \/ Tick

Spec == Init /\ [][Next]_vars

(* The host hands a request to the process while another invocation awaits
   its outbound send *)
NextConcurrent ==
    \/ \E h \in Handlers : \E rq \in Requests(MaxEvents - delivered) :
         Receive(h, rq)
    \/ \E h \in Handlers : ProcessEvent(h)
    \/ \E h \in Handlers : \E resp \in {"ok", "nonok", "throw", "nourl"} : Deliver(h, resp)
    \/ \E h \in Handlers : Return(h)
    \/ \E h \in Handlers : Retire(h)
    \/ Tick

SpecConcurrent == Init /\ [][NextConcurrent]_vars

---------------------------------------------------------------------------
(* The handler on events of every shape, under threshold profiles with
   disabled dimensions *)

\* helius.js 15-17: profiles in which a threshold of 0 disables a dimension
ShapeThresholds ==
    { [MIN_SOL |-> 500, MIN_STABLE |-> 0, MIN_TOKEN_LEG |-> 0],
      [MIN_SOL |-> 500, MIN_STABLE |-> 0, MIN_TOKEN_LEG |-> 1000],
      [MIN_SOL |-> 500, MIN_STABLE |-> 25, MIN_TOKEN_LEG |-> 0],
      [MIN_SOL |-> 0, MIN_STABLE |-> 25, MIN_TOKEN_LEG |-> 1000],
      [MIN_SOL |-> 25, MIN_STABLE |-> 25, MIN_TOKEN_LEG |-> 1000] }

\* the cooldown enabled, the cap at its default (helius.js 20), the score to
\* ping set to 6 (helius.js 24), the webhook set, the list readable;
\* the role to ping is configured or not where all three thresholds are enabled
ShapeEnvs ==
    { e \in { [ COOLDOWN_SECONDS |-> cd, MAX_ALERTS_PER_REQUEST |-> 8,
                MIN_SOL |-> th.MIN_SOL, MIN_STABLE |-> th.MIN_STABLE,
                MIN_TOKEN_LEG |-> th.MIN_TOKEN_LEG,
                PING_ROLE_ID |-> role, PING_SCORE |-> 6,
                DISCORD_WEBHOOK_URL |-> "https://discord/webhook",
                walletFile |-> "ok" ] :
                cd \in CooldownChoices \ {0}, th \in ShapeThresholds,
                role \in PingRoleChoices } :
        e.PING_ROLE_ID # "" => e.MIN_SOL = 25 }

\* null in place of an event: every e?.x is undefined
evNull ==
    [Event("", "", "", NoTransfers, NoTransfers)
        EXCEPT !.notArray = {"nativeTransfers", "tokenTransfers"}]
\* no type; W1 spends 2 SOL
evNoType == Event("", "W1", "", <<Native("W1", "X", 2000000000)>>, NoTransfers)
\* nativeTransfers is an object with the key "0", not an array; tokenTransfers
\* is absent
evNotList ==
    [Event("SWAP", "W1", "", <<Native("W1", "X", 2000000000)>>, NoTransfers)
        EXCEPT !.notArray = {"nativeTransfers", "tokenTransfers"}]
\* transfer records with missing fields: no accounts, no amount, no mint
evBadRecords ==
    Event("SWAP", "W1", "",
          <<Native("", "", 2000000000), Native("W1", "X", 0)>>,
          <<Token("", "X", "W1", 5000), Token("USDC", "", "", 100),
            Token("BONK", "X", "W1", 0)>>)
\* the actor is found only in the account keys of the message
evKeyActor ==
    [Event("SWAP", "", "", NoTransfers, <<Token("USDC", "X", "W2", 100)>>)
        EXCEPT !.accountKey0 = "W2"]
\* account data and account keys name different tracked addresses
evDataActor ==
    [Event("SWAP", "", "W2", NoTransfers, <<Token("USDC", "X", "W2", 100)>>)
        EXCEPT !.accountKey0 = "W1"]
\* the fee payer is a stranger, the other fields name tracked addresses
evPayerActor ==
    [Event("SWAP", "X", "W1", <<Native("W1", "X", 2000000000)>>, NoTransfers)
        EXCEPT !.accountKey0 = "W2"]

MalformedEvents == {evNull, evNoType, evNotList, evBadRecords}

\* the malformed events whose transfer fields hold nothing that counts
UnusableTransfers == {evNull, evNotList, evBadRecords}

ShapePool ==
    MalformedEvents \cup {evBuy, evNoActor, evKeyActor, evDataActor, evPayerActor}

ShapeBatches(n) == UNION { [1..k -> ShapePool] : k \in 1..n }

\* authorised POST requests: an array of events, or one event as the body
ShapeRequests(n) ==
    IF n <= 0 THEN {} ELSE
         { [method |-> "POST", authorization |-> HELIUS_AUTH_HEADER,
            shape |-> "array", items |-> b] : b \in ShapeBatches(n) }
    \cup { [method |-> "POST", authorization |-> HELIUS_AUTH_HEADER,
            shape |-> "object", items |-> <<e>>] : e \in ShapePool }

InitShapes ==
    /\ env \in ShapeEnvs
    /\ cachedWallets = "null"
    /\ lastAlertAt = << >>
    /\ now = StartTime
    /\ running = 0
    /\ req = [h \in Handlers |-> Idle]
    /\ posted = << >>
    /\ delivered = 0
    /\ args = NoCall
    /\ ret = NoCall
    /\ BigMovesAtRest

NextShapes ==
    \/ \E h \in Handlers : \E rq \in ShapeRequests(MaxEvents - delivered) :
         NoneInFlight /\ Receive(h, rq)
    \/ \E h \in Handlers : ProcessEvent(h)
    \/ \E h \in Handlers : \E resp \in {"ok", "throw"} : Deliver(h, resp)
    \/ \E h \in Handlers : Return(h)
    \/ \E h \in Handlers : Retire(h)
    \/ Tick

SpecShapes == InitShapes /\ [][NextShapes]_vars

---------------------------------------------------------------------------
(* The functions of the module called on their own: the cooldown gate, the
   score, and the accounting of one event with the filter that follows it *)

\* isCoolingDown reads lastAlertAt, nowSec() and COOLDOWN_SECONDS: a map whose
\* entries are not in the future, a time and a window
GateTimes == 0..(StartTime + MaxTicks)

GateWindows == -1..StartTime

GateMaps(t) == UNION { [S -> 0..t] : S \in SUBSET TrackedWallets }

GateCalls ==
    UNION { { [fn |-> "isCoolingDown", map |-> m, wallet |-> w, t |-> t,
               window |-> win] :
                 m \in GateMaps(t), w \in TrackedWallets, win \in GateWindows } :
            t \in GateTimes }

\* net SOL (hundredths) and net stable around the bands of scoreEvent
SolDeltas ==
    LET m == {0, 24, 25, 74, 75, 150, 300, 699, 700, 5000}
    IN  m \cup {-x : x \in m}

StableDeltas ==
    LET m == {0, 24, 25, 100, 249, 250, 1000, 4000}
    IN  m \cup {-x : x \in m}

\* what summarizeTokenLegs can return as a leg: null or a mint with an amount
LegChoices ==
    {NoLeg} \cup { [mint |-> "BONK", amt |-> a] :
                     a \in {-1000, 1, 999, 100000, 999999, 1000000} }

ScoreCalls ==
    { [fn |-> "scoreEvent", netSol |-> s, netStable |-> u,
       biggestIn |-> i, biggestOut |-> o] :
         s \in SolDeltas, u \in StableDeltas, i \in LegChoices, o \in LegChoices }

\* native transfers: W1 pays, W1 is paid, a record without amount, W1 to itself
NativePool ==
    { Native("W1", "X", 500000000), Native("X", "W1", 250000000),
      Native("W1", "X", 0), Native("W1", "W1", 10000000) }

\* token transfers: stable out and in, two other tokens in with the same
\* amount, another token out, a record without mint, W1 to itself
TokenPool ==
    { Token("USDC", "W1", "X", 100), Token("USDT", "X", "W1", 40),
      Token("BONK", "X", "W1", 500), Token("WIF", "X", "W1", 500),
      Token("BONK", "W1", "X", 7000), Token("", "X", "W1", 9),
      Token("USDC", "W1", "W1", 100) }

NativeLists == UNION { [1..k -> NativePool] : k \in 0..MaxTransfers }

TokenLists == UNION { [1..k -> TokenPool] : k \in 0..MaxTransfers }

Subjects == TrackedWallets \cup {"X"}

\* helius.js 371-388 on one event and one subject
LedgerCalls ==
         { [fn |-> "ledger", e |-> Event("SWAP", "W1", "", ns, ts), wallet |-> w] :
             ns \in NativeLists, ts \in TokenLists, w \in Subjects }
    \cup { [fn |-> "ledger", e |-> evBuy, wallet |-> "W1"] }

\* the configuration under which the functions are called: every threshold
\* above 0, MIN_SOL and MIN_STABLE at their defaults
CallEnv ==
    [ COOLDOWN_SECONDS |-> 2, MAX_ALERTS_PER_REQUEST |-> 8,
      MIN_SOL |-> 25, MIN_STABLE |-> 25, MIN_TOKEN_LEG |-> 1000,
      PING_ROLE_ID |-> "", PING_SCORE |-> 8,
      DISCORD_WEBHOOK_URL |-> "https://discord/webhook", walletFile |-> "ok" ]

InitCalls ==
    /\ env = CallEnv
    /\ cachedWallets = "null"
    /\ lastAlertAt = << >>
    /\ now = StartTime
    /\ running = 0
    /\ req = [h \in Handlers |-> Idle]
    /\ posted = << >>
    /\ delivered = 0
    /\ \/ args \in GateCalls
       \/ args \in ScoreCalls
       \/ args \in LedgerCalls
    /\ ret = NoCall
    /\ BigMovesAtRest

(* helius.js 225-229 *)
CallIsCoolingDown ==
    /\ args.fn = "isCoolingDown"
    /\ ret = NoCall
    /\ ret' = [fn |-> "isCoolingDown",
               value |-> isCoolingDown(args.map, args.wallet, args.t, args.window)]
    /\ UNCHANGED <<bmVars, env, cachedWallets, lastAlertAt, now, running, req, posted,
                   delivered, args>>

(* helius.js 190-218 *)
CallScoreEvent ==
    /\ args.fn = "scoreEvent"
    /\ ret = NoCall
    /\ ret' = [fn |-> "scoreEvent",
               value |-> scoreEvent(args.netSol, args.netStable,
                                    args.biggestIn, args.biggestOut)]
    /\ UNCHANGED <<bmVars, env, cachedWallets, lastAlertAt, now, running, req, posted,
                   delivered, args>>

(* helius.js 371-388: the three accounting functions on the event and the
   subject, the native trigger, and where the filter chain ends for the event *)
CallLedger ==
    /\ args.fn = "ledger"
    /\ ret = NoCall
    /\ LET legs == summarizeTokenLegs(args.e, args.wallet)
           netSol == computeNetSol(args.e, args.wallet)
       IN  ret' = [fn |-> "ledger",
                   netSol |-> netSol,
                   netStable |-> computeNetStable(args.e, args.wallet),
                   biggestIn |-> legs.biggestIn,
                   biggestOut |-> legs.biggestOut,
                   triggersSol |-> triggersSol(netSol),
                   outcome |-> Outcome(args.e)]
    /\ UNCHANGED <<bmVars, env, cachedWallets, lastAlertAt, now, running, req, posted,
                   delivered, args>>

NextCalls ==
    \/ CallIsCoolingDown
    \/ CallScoreEvent
    \/ CallLedger

SpecCalls == InitCalls /\ [][NextCalls]_vars

---------------------------------------------------------------------------
(* The big-moves job (src/api/big-moves.js) *)

\* a pair of the market data: its base token, its liquidity in USD, its
\* volume of 24 hours and its price change of one hour
Pair(name, usd, h24, h1) == [name |-> name, usd |-> usd, h24 |-> h24, h1 |-> h1]

\* what fetchDexPairsSolana resolves or rejects with (big-moves.js 44-49):
\* the fetch throws, the response is not ok (null), or the list of pairs
MarketResponses ==
    { [kind |-> "throw", pairs |-> << >>], [kind |-> "notok", pairs |-> << >>] }
    \cup { [kind |-> "ok", pairs |-> ps] : ps \in
            { << >>,
              <<Pair("A", 0, 150000, 150)>>,
              <<Pair("A", 15000, 150000, 150)>>,
              <<Pair("A", 14999, 200000, 200)>>,
              <<Pair("A", 15000, 149999, 150)>>,
              <<Pair("A", 15000, 150000, 149)>>,
              <<Pair("A", 15000, 150000, 150), Pair("B", 20000, 100, 0)>> } }

\* what the fetch of postToBigMoves does (big-moves.js 26-34)
PostResponses == {"ok", "nonok", "throw"}

(* big-moves.js 75-77: the pairs with a liquidity, sorted by liquidity in
   descending order (the sort is stable), the first of them *)
best(pairs) ==
    LET liquid == SelectSeq(pairs, LAMBDA p : p.usd # 0)
    IN  IF Len(liquid) = 0 THEN NoPair
        ELSE liquid[CHOOSE i \in 1..Len(liquid) :
                      \A j \in 1..Len(liquid) :
                          /\ liquid[j].usd <= liquid[i].usd
                          /\ j < i => liquid[j].usd < liquid[i].usd]

(* big-moves.js 72-88: the pair of the mint passes the three thresholds *)
PassesGates(resp) ==
    LET b == best(resp.pairs)
    IN  /\ resp.kind = "ok"
        /\ Len(resp.pairs) > 0
        /\ b # NoPair
        /\ ~(b.usd < MIN_LP_USD)
        /\ ~(b.h24 < MIN_VOL_24H)
        /\ ~(b.h1 < MIN_CHANGE_1H)

(* big-moves.js 15: lastPosted.get(key) || 0 *)
LastPostedOf(map, key) == IF key \in DOMAIN map THEN map[key] ELSE 0

(* big-moves.js 13-19: the answer of canPost *)
canPost(map, key, t, cooldownMinutes) ==
    ~(t - LastPostedOf(map, key) < cooldownMinutes * 60 * 1000)

\* canPost that answers and leaves the map as it was
setLastPostedSkipped(map, key, t) == map

(* big-moves.js 17: lastPosted.set(key, now), in the call that answered true *)
setLastPosted(map, key, t) ==
    [k \in (DOMAIN map) \cup {key} |-> IF k = key THEN t ELSE map[k]]

(* big-moves.js 70, 106-108: the next mint of mints.slice(0, 150) is
   fetched, or the loop is over and the run answers 200 *)
NextMint(rr) ==
    IF rr.idx + 1 > Len(bmEnv.BM_MINTS) \/ rr.idx + 1 > 150
    THEN [rr EXCEPT !.pc = "done", !.status = 200]
    ELSE [rr EXCEPT !.pc = "fetch", !.idx = rr.idx + 1]

(* big-moves.js 104-105: posted++, and the break at MAX_POSTS_PER_RUN *)
CountPost(rr) ==
    LET counted == [rr EXCEPT !.posted = rr.posted + 1]
    IN  IF counted.posted >= bmEnv.MAX_POSTS_PER_RUN
        THEN [counted EXCEPT !.pc = "done", !.status = 200]
        ELSE NextMint(counted)

(* big-moves.js 51-71: the job is entered and runs up to the await of the
   market data of the first mint *)
BmReceive(r, got) ==
    /\ run[r].pc = "idle"
    /\ run' = [run EXCEPT ![r] =
                 IF bmEnv.BM_CRON_SECRET # "" /\ got # bmEnv.BM_CRON_SECRET
                 THEN [RunIdle EXCEPT !.pc = "done", !.status = 401]
                 ELSE IF Len(bmEnv.BM_MINTS) = 0
                 THEN [RunIdle EXCEPT !.pc = "done", !.status = 200]
                 ELSE [RunIdle EXCEPT !.pc = "fetch"]]
    /\ UNCHANGED <<heliusVars, bmEnv, lastPosted, nowMs, bmLog>>

(* big-moves.js 71-102: the market data of the mint arrives; the run goes on
   without interruption through the thresholds and canPost, and up to the
   next await: the fetch of postToBigMoves, or the market data of the next
   mint *)
BmFetched(r, resp) ==
    LET rr == run[r]
        mint == bmEnv.BM_MINTS[rr.idx]
        picked == IF resp.kind = "ok" /\ Len(resp.pairs) > 0
                  THEN [rr EXCEPT !.best = best(resp.pairs)]
                  ELSE rr
    IN  /\ rr.pc = "fetch"
        /\ resp \in MarketResponses
        /\ IF resp.kind = "throw" THEN
                /\ run' = [run EXCEPT ![r] = [rr EXCEPT !.pc = "done", !.status = 500]]
                /\ UNCHANGED <<lastPosted, bmLog>>
           ELSE IF ~PassesGates(resp) THEN
                /\ run' = [run EXCEPT ![r] = NextMint(picked)]
                /\ UNCHANGED <<lastPosted, bmLog>>
           ELSE IF ~canPost(lastPosted, mint, nowMs, COOLDOWN_MINUTES) THEN
                /\ run' = [run EXCEPT ![r] = NextMint(picked)]
                /\ UNCHANGED <<lastPosted, bmLog>>
           ELSE /\ lastPosted' = setLastPosted(lastPosted, mint, nowMs)
                /\ IF bmEnv.BIG_MOVES_WEBHOOK_URL = "" THEN
                        /\ run' = [run EXCEPT ![r] = CountPost(picked)]
                        /\ UNCHANGED bmLog
                   ELSE /\ run' = [run EXCEPT ![r] = [picked EXCEPT !.pc = "post"]]
                        /\ bmLog' = bmLog \cup {[key |-> mint, at |-> nowMs]}
        /\ UNCHANGED <<heliusVars, bmEnv, nowMs>>

(* big-moves.js 26-34, 102-112: the fetch of postToBigMoves is over; a
   response that is not ok is logged, a rejection ends the run with 500 *)
BmPosted(r, resp) ==
    /\ run[r].pc = "post"
    /\ resp \in PostResponses
    /\ run' = [run EXCEPT ![r] =
                 IF resp = "throw"
                 THEN [run[r] EXCEPT !.pc = "done", !.status = 500]
                 ELSE CountPost(run[r])]
    /\ UNCHANGED <<heliusVars, bmEnv, lastPosted, nowMs, bmLog>>

(* the response has been sent: the locals of the run are gone *)
BmRetire(r) ==
    /\ run[r].pc = "done"
    /\ run' = [run EXCEPT ![r] = RunIdle]
    /\ UNCHANGED <<heliusVars, bmEnv, lastPosted, nowMs, bmLog>>

(* big-moves.js 14: an hour passes *)
BmTick ==
    /\ nowMs < (COOLDOWN_MINUTES + MaxTicks * 60) * 60 * 1000
    /\ nowMs' = nowMs + 60 * 60 * 1000
    /\ UNCHANGED <<heliusVars, bmEnv, lastPosted, run, bmLog>>

InitBigMoves ==
    /\ env = CallEnv
    /\ cachedWallets = "null"
    /\ lastAlertAt = << >>
    /\ now = StartTime
    /\ running = 0
    /\ req = [h \in Handlers |-> Idle]
    /\ posted = << >>
    /\ delivered = 0
    /\ args = NoCall
    /\ ret = NoCall
    /\ bmEnv \in BmEnvs
    /\ lastPosted = << >>
    /\ nowMs = COOLDOWN_MINUTES * 60 * 1000
    /\ run = [r \in Runs |-> RunIdle]
    /\ bmLog = {}

(* The host enters the job while another run of it awaits *)
NextBigMoves ==
    \/ \E r \in Runs : \E got \in {"", "cron"} : BmReceive(r, got)
    \/ \E r \in Runs : \E resp \in MarketResponses : BmFetched(r, resp)
    \/ \E r \in Runs : \E resp \in PostResponses : BmPosted(r, resp)
    \/ \E r \in Runs : BmRetire(r)
    \/ BmTick

SpecBigMoves == InitBigMoves /\ [][NextBigMoves]_vars

---------------------------------------------------------------------------
(* The claims *)

\* the event the handler h is about to examine, and its actor
Cur(h) == req[h].events[req[h].idx]

CurActor(h) == extractFeePayer(Cur(h))

\* h examines an event in this step
Examines(h) ==
    /\ req[h].pc = "loop"
    /\ req[h].idx <= Len(req[h].events)
    /\ req'[h] # req[h]

\* the event h is about to examine has a watched type and a tracked actor
Tracked(h) ==
    /\ TypeOf(Cur(h)) \in ALERT_TYPES
    /\ CurActor(h) \in TrackedWallets

Cooling(h) == isCoolingDown(lastAlertAt, CurActor(h), now, env.COOLDOWN_SECONDS)

AnyTrigger(h) ==
    \/ triggersSol(computeNetSol(Cur(h), CurActor(h)))
    \/ triggersStable(computeNetStable(Cur(h), CurActor(h)))
    \/ triggersTokenLeg(summarizeTokenLegs(Cur(h), CurActor(h)))

\* h hands an alert to postToDiscord in this step
Emits(h) == req[h].pc = "loop" /\ req'[h].pc = "await"

(* C1: an alert is composed and sent only for an event whose actor is on the
   watch list, is not reported as cooling down by the cooldown gate and has
   at least one trigger true; nothing is posted in any other step; and the
   cooldown check comes before the triggers: a tracked actor that is cooling
   down is counted as cooled, never as filtered, whatever its triggers. *)
C1_AlertOnlyAfterGates ==
    [][ /\ \A h \in Handlers :
              Emits(h) => /\ Tracked(h)
                          /\ ~Cooling(h)
                          /\ AnyTrigger(h)
        /\ posted' # posted =>
              \E h \in Handlers :
                  /\ Emits(h)
                  /\ Len(posted') = Len(posted) + 1
                  /\ posted'[Len(posted')].wallet = CurActor(h)
        /\ \A h \in Handlers :
              (Examines(h) /\ Tracked(h) /\ Cooling(h)) =>
                  /\ req'[h].pc = "loop"
                  /\ req'[h].cooled = req[h].cooled + 1
                  /\ req'[h].filtered = req[h].filtered
      ]_vars

\* an alert was sent for W1 and a later event of W1 was stopped by the cooldown
C1_Witness ==
    \E h \in Handlers :
        /\ req[h].cooled = 1
        /\ req[h].sent = 1
        /\ Len(posted) = 1
        /\ posted[1].wallet = "W1"

(* C2: with a window > 0, when a trigger-worthy event of a tracked actor is
   examined after an alert of that actor was recorded, it is suppressed and
   counted as cooled when it is examined less than the window after the
   record, and it is emitted when the window has passed. *)
C2_SecondWithinWindow ==
    [][ \A h \in Handlers :
          ( /\ Examines(h) /\ Tracked(h) /\ AnyTrigger(h)
            /\ env.COOLDOWN_SECONDS > 0
            /\ CurActor(h) \in DOMAIN lastAlertAt ) =>
              IF now - lastAlertAt[CurActor(h)] < env.COOLDOWN_SECONDS
              THEN /\ req'[h].pc = "loop"
                   /\ req'[h].cooled = req[h].cooled + 1
                   /\ req'[h].sent = req[h].sent
                   /\ posted' = posted
              ELSE /\ req'[h].pc = "await"
                   /\ req'[h].cooled = req[h].cooled
                   /\ env.DISCORD_WEBHOOK_URL # "" =>
                        posted' = Append(posted, Payload(Cur(h)))
      ]_vars

\* two alerts of the same actor, the second a window after the first
C2_Witness ==
    /\ env.COOLDOWN_SECONDS > 0
    /\ Len(posted) = 2
    /\ posted[1].wallet = posted[2].wallet
    /\ posted[2].at - posted[1].at >= env.COOLDOWN_SECONDS

(* C3: with a window > 0, two invocations never are both past the cooldown
   gate with an alert of the same address: at most one of them emits. *)
C3_GateAtomicPerAddress ==
    env.COOLDOWN_SECONDS > 0 =>
        \A h1, h2 \in Handlers :
            (h1 # h2 /\ req[h1].pc = "await" /\ req[h2].pc = "await")
                => CurActor(h1) # CurActor(h2)

\* a watched type, a tracked actor and a trigger that fires
Worthy(e) ==
    /\ TypeOf(e) \in ALERT_TYPES
    /\ extractFeePayer(e) \in TrackedWallets
    /\ Admitted(e, extractFeePayer(e))

\* how many of the first n events of es are trigger-worthy
WorthyIn(es, n) == Cardinality({k \in 1..n : Worthy(es[k])})

(* C4: the emitted count never exceeds the cap, and a batch with more
   trigger-worthy events than the cap (no cooldown in the way) ends with
   exactly cap alerts emitted. *)
C4_ExactlyCap ==
    \A h \in Handlers :
        /\ req[h].sent <= env.MAX_ALERTS_PER_REQUEST
        /\ ( /\ req[h].pc = "done" /\ req[h].status = 200
             /\ env.COOLDOWN_SECONDS <= 0
             /\ WorthyIn(req[h].events, Len(req[h].events))
                    > env.MAX_ALERTS_PER_REQUEST )
           => req[h].sent = env.MAX_ALERTS_PER_REQUEST

HasType(e) == TypeOf(e) \in ALERT_TYPES

HasTrackedActor(e) == HasType(e) /\ extractFeePayer(e) \in TrackedWallets

\* how many of the first n events of es have a watched type
TypedIn(es, n) == Cardinality({k \in 1..n : HasType(es[k])})

\* how many of the first n events of es have a watched type and a tracked actor
TrackedIn(es, n) == Cardinality({k \in 1..n : HasTrackedActor(es[k])})

\* the number of events the loop of h has examined
Examined(h) ==
    IF req[h].idx <= Len(req[h].events) THEN req[h].idx ELSE Len(req[h].events)

(* C5 as stated: at the summary, every event of the batch, those after the
   cap included, is counted in received, in type-matched and in tracked. *)
C5_RemainderCounted ==
    \A h \in Handlers :
        (req[h].pc = "done" /\ req[h].status = 200) =>
            /\ req[h].received = Len(req[h].events)
            /\ req[h].matchedType = TypedIn(req[h].events, Len(req[h].events))
            /\ req[h].matchedTracked =
                   TrackedIn(req[h].events, Len(req[h].events))

(* C5 amended: once the emitted count has reached the cap the loop examines
   nothing more; at the summary the events after that point are counted in
   received only: type-matched and tracked count the examined events. *)
C5_RemainderOnlyReceived ==
    \A h \in Handlers :
        /\ req[h].pc \in {"loop", "await"} =>
              (req[h].sent = 0 \/ req[h].sent < env.MAX_ALERTS_PER_REQUEST)
        /\ (req[h].pc = "done" /\ req[h].status = 200) =>
              /\ req[h].received = Len(req[h].events)
              /\ req[h].matchedType = TypedIn(req[h].events, Examined(h))
              /\ req[h].matchedTracked =
                     TrackedIn(req[h].events, Examined(h))

\* the summary of a batch whose second event is trigger-worthy and was left
\* out because the first reached the cap
C5_Witness ==
    \E h \in Handlers :
        /\ req[h].pc = "done" /\ req[h].status = 200
        /\ req[h].sent = 1 /\ req[h].idx = 1
        /\ Len(req[h].events) = 2
        /\ Worthy(req[h].events[2])
        /\ req[h].received = 2 /\ req[h].matchedType = 1

\* the await of h ends in this step with the answer resp
Settles(h, resp) ==
    /\ req[h].pc = "await"
    /\ req'[h] # req[h]
    /\ req'[h].resp = resp

(* C6: when the sink answers an alert with a response that is not ok, the
   cooldown of the actor is recorded at the current second, the alert is
   counted as emitted, the gate reports the actor as cooling down from then
   on (window > 0), and the handler either goes on to the next event or, the
   cap being reached, ends with the summary; an invocation whose last answer
   was such a response never ends with the error result. *)
C6_FailureOnlyReported ==
    [][ \A h \in Handlers :
          /\ Settles(h, "nonok") =>
                /\ CurActor(h) \in DOMAIN lastAlertAt'
                /\ lastAlertAt'[CurActor(h)] = now
                /\ req'[h].sent = req[h].sent + 1
                /\ env.COOLDOWN_SECONDS > 0 =>
                      isCoolingDown(lastAlertAt', CurActor(h), now, env.COOLDOWN_SECONDS)
                /\ \/ req'[h].pc = "loop" /\ req'[h].idx = req[h].idx + 1
                   \/ /\ req'[h].pc = "done" /\ req'[h].status = 200
                      /\ req'[h].sent >= env.MAX_ALERTS_PER_REQUEST
          /\ (req'[h].pc = "done" /\ req'[h].resp = "nonok") => req'[h].status = 200
      ]_vars

\* the first alert was answered with a failure, the next event of the same
\* actor was stopped by the cooldown, and the batch ended with the summary
C6_Witness ==
    \E h \in Handlers :
        /\ req[h].pc = "done" /\ req[h].status = 200
        /\ req[h].resp = "nonok"
        /\ req[h].sent = 1 /\ req[h].cooled = 1

(* C7: a send that raises does not end the invocation with the error result,
   and the cooldown of its actor is recorded. *)
C7_TransportErrorAbsorbed ==
    \A h \in Handlers :
        req[h].resp = "throw" =>
            /\ req[h].status # 500
            /\ CurActor(h) \in DOMAIN lastAlertAt

(* C8: the cooldown map changes only in the step that follows the send of an
   alert, where the entry of the emitted actor is set to the current second
   and every other entry is kept; a step that examines an event leaves the
   map as it is. *)
C8_MapWrittenOnlyByRecord ==
    [][ /\ lastAlertAt' # lastAlertAt =>
              \E h \in Handlers :
                  /\ req[h].pc = "await"
                  /\ req'[h].sent = req[h].sent + 1
                  /\ DOMAIN lastAlertAt' = (DOMAIN lastAlertAt) \cup {CurActor(h)}
                  /\ lastAlertAt'[CurActor(h)] = now
                  /\ \A a \in (DOMAIN lastAlertAt) \ {CurActor(h)} :
                         lastAlertAt'[a] = lastAlertAt[a]
        /\ \A h \in Handlers : Examines(h) => lastAlertAt' = lastAlertAt
      ]_vars

\* W2 was recorded after W1 and the entry of W1 is still there
C8_Witness ==
    /\ DOMAIN lastAlertAt = {"W1", "W2"}
    /\ lastAlertAt["W1"] <= lastAlertAt["W2"]
    /\ Len(posted) = 2 /\ posted[1].wallet = "W1"

(* C9: when the watch list cannot be loaded, an authorized POST ends at once
   with the error result, its counters at zero; no event is ever examined,
   nothing is posted and the cooldown map stays empty. *)
C9_WatchListUnavailable ==
    [][ env.walletFile # "ok" =>
          /\ \A h \in Handlers :
                ( /\ req[h].pc = "idle" /\ req'[h].pc # "idle"
                  /\ req'[h].method = "POST"
                  /\ req'[h].authorization = HELIUS_AUTH_HEADER ) =>
                    req'[h] = [Idle EXCEPT !.pc = "done", !.status = 500,
                                           !.method = "POST",
                                           !.authorization = HELIUS_AUTH_HEADER]
          /\ \A h \in Handlers : req'[h].pc \in {"idle", "done"}
          /\ posted' = << >>
          /\ lastAlertAt' = << >>
          /\ cachedWallets' = "null"
      ]_vars

\* a batch was answered with the error result because the list is missing
C9_Witness ==
    /\ env.walletFile = "missing"
    /\ \E h \in Handlers :
          /\ req[h].pc = "done" /\ req[h].status = 500
          /\ req[h].method = "POST"

(* C10: an event that reaches the trigger evaluation is admitted exactly when
   one of the three triggers is true; when all three are false nothing is
   posted, filtered grows by one and the cooldown map is unchanged. *)
C10_AdmittedIffAnyTrigger ==
    [][ \A h \in Handlers :
          (Examines(h) /\ Tracked(h) /\ ~Cooling(h)) =>
              IF AnyTrigger(h)
              THEN /\ req'[h].pc = "await"
                   /\ req'[h].filtered = req[h].filtered
              ELSE /\ req'[h].pc = "loop"
                   /\ req'[h].idx = req[h].idx + 1
                   /\ req'[h].filtered = req[h].filtered + 1
                   /\ req'[h].sent = req[h].sent
                   /\ posted' = posted
                   /\ lastAlertAt' = lastAlertAt
      ]_vars

\* one event of the batch was filtered by the triggers, the other one admitted
C10_Witness ==
    \E h \in Handlers :
        /\ req[h].filtered = 1
        /\ req[h].sent = 1
        /\ req[h].matchedTracked = 2


\* every threshold of the configuration is above 0
AllEnabled == env.MIN_SOL > 0 /\ env.MIN_STABLE > 0 /\ env.MIN_TOKEN_LEG > 0

(* C11: a threshold of 0 makes the trigger of its dimension true for every
   net movement, so an event of a tracked actor that is not cooling down is
   emitted as soon as one dimension is disabled, also when every enabled
   dimension is below its threshold. *)
C11_DisabledDimensionAdmits ==
    [][ \A h \in Handlers :
          Examines(h) /\ Tracked(h) /\ ~Cooling(h) =>
            /\ env.MIN_SOL = 0 => triggersSol(computeNetSol(Cur(h), CurActor(h)))
            /\ env.MIN_STABLE = 0 =>
                  triggersStable(computeNetStable(Cur(h), CurActor(h)))
            /\ env.MIN_TOKEN_LEG = 0 =>
                  triggersTokenLeg(summarizeTokenLegs(Cur(h), CurActor(h)))
            /\ ~AllEnabled => Emits(h) ]_vars

\* minNative 5, a native delta of 2 SOL, no token transfers, the other two
\* dimensions disabled: the alert is on its way
C11_Witness ==
    \E h \in Handlers :
        /\ req[h].pc = "await"
        /\ env.MIN_SOL = 500 /\ env.MIN_STABLE = 0 /\ env.MIN_TOKEN_LEG = 0
        /\ Abs(computeNetSol(Cur(h), CurActor(h))) \in 1..499
        /\ tokenTransfers(Cur(h)) = << >>
        /\ Len(posted) > 0

FirstPopulated(e) ==
    IF e.feePayer # "" THEN e.feePayer
    ELSE IF e.accountData0 # "" THEN e.accountData0
    ELSE e.accountKey0

\* the counters of h but matchedType and idx do not change in this step
OnlyTypeMatched(h) ==
    /\ req'[h] = [req[h] EXCEPT !.idx = req[h].idx + 1,
                                !.matchedType = req[h].matchedType + 1]
    /\ lastAlertAt' = lastAlertAt
    /\ posted' = posted

(* C15: the actor is the first populated one of the top-level fee payer, the
   account of the first account-data entry and the first account key of the
   message: the watch-list filter, the alert and the cooldown record all use
   it; an event of a watched type with none of them is counted as
   type-matched only and changes no cooldown state. *)
C15_ActorFirstPopulated ==
    [][ \A h \in Handlers :
          /\ Examines(h) /\ TypeOf(Cur(h)) \in ALERT_TYPES =>
                /\ req'[h].matchedTracked = req[h].matchedTracked + 1
                      <=> FirstPopulated(Cur(h)) \in TrackedWallets
                /\ Emits(h) =>
                      /\ Len(posted') = Len(posted) + 1
                      /\ posted'[Len(posted')].wallet = FirstPopulated(Cur(h))
                /\ FirstPopulated(Cur(h)) = "" => OnlyTypeMatched(h)
          /\ req[h].pc = "await" /\ lastAlertAt' # lastAlertAt =>
                /\ FirstPopulated(Cur(h)) \in DOMAIN lastAlertAt'
                /\ \A a \in DOMAIN lastAlertAt :
                      a # FirstPopulated(Cur(h)) => lastAlertAt'[a] = lastAlertAt[a]
        ]_vars

\* an event without any actor field has been counted as type-matched only,
\* and the alert of an event whose actor is found in the account keys of the
\* message is on its way
C15_Witness ==
    \E h \in Handlers :
        /\ req[h].pc = "await" /\ req[h].idx = 2
        /\ FirstPopulated(req[h].events[1]) = ""
        /\ req[h].matchedType = 2 /\ req[h].matchedTracked = 1
        /\ Cur(h).feePayer = "" /\ Cur(h).accountData0 = ""
        /\ Cur(h).accountKey0 \in TrackedWallets
        /\ posted[Len(posted)].wallet = Cur(h).accountKey0

(* C12: the cooldown gate returns false for every address and time when the
   window is <= 0; with a positive window and a recorded last alert of the
   address it returns true exactly when now minus the record is below the
   window, so not at exactly window seconds after the record. *)
C12_GateByWindow ==
    ret.fn = "isCoolingDown" =>
        /\ args.window <= 0 => ret.value = FALSE
        /\ args.window > 0 /\ args.wallet \in DOMAIN args.map =>
              (ret.value <=> args.t - args.map[args.wallet] < args.window)

\* the gate was asked exactly window seconds after the record and answered no
C12_Witness ==
    /\ ret.fn = "isCoolingDown"
    /\ args.window > 0
    /\ args.wallet \in DOMAIN args.map
    /\ args.t - args.map[args.wallet] = args.window
    /\ ret.value = FALSE

(* C13: for an address without an entry in the cooldown map the gate answers
   not suppressed, at every time and for every positive window. *)
C13_NoEntryNotSuppressed ==
    ret.fn = "isCoolingDown" /\ args.window > 0
        /\ args.wallet \notin DOMAIN args.map => ret.value = FALSE

\* the largest-leg magnitude of two legs
LegMagnitude(biggestIn, biggestOut) == Max(Abs(biggestIn.amt), Abs(biggestOut.amt))

(* C16: the score is a non-negative integer, and it does not decrease when
   one of |netSol|, |netStable| or the largest-leg magnitude grows while the
   other two inputs stay as they are. *)
C16_ScoreMonotone ==
    ret.fn = "scoreEvent" =>
        /\ ret.value \in Nat
        /\ \A s \in SolDeltas :
              Abs(s) >= Abs(args.netSol) =>
                scoreEvent(s, args.netStable, args.biggestIn, args.biggestOut)
                    >= ret.value
        /\ \A u \in StableDeltas :
              Abs(u) >= Abs(args.netStable) =>
                scoreEvent(args.netSol, u, args.biggestIn, args.biggestOut)
                    >= ret.value
        /\ \A i \in LegChoices, o \in LegChoices :
              LegMagnitude(i, o) >= LegMagnitude(args.biggestIn, args.biggestOut) =>
                scoreEvent(args.netSol, args.netStable, i, o) >= ret.value

\* a scored movement of a negative net SOL whose score grows with a larger
\* magnitude of the opposite sign
C16_Witness ==
    /\ ret.fn = "scoreEvent"
    /\ args.netSol < 0 /\ ret.value > 0
    /\ \E s \in SolDeltas :
          /\ s > Abs(args.netSol)
          /\ scoreEvent(s, args.netStable, args.biggestIn, args.biggestOut)
                > ret.value

(* helius.js 194-199, 202-206, 212-215: the bands, <<threshold, increment>> *)
SolBands == {<<25, 1>>, <<75, 2>>, <<150, 3>>, <<300, 4>>, <<700, 6>>}

StableBands == {<<25, 1>>, <<100, 2>>, <<250, 3>>, <<1000, 5>>}

LegBands == {<<1000, 1>>, <<100000, 2>>, <<1000000, 3>>}

\* the sum of the increments of a set of bands
RECURSIVE SumIncrements(_)
SumIncrements(bands) ==
    IF bands = {} THEN 0
    ELSE LET b == CHOOSE x \in bands : TRUE
         IN  b[2] + SumIncrements(bands \ {b})

\* every band whose threshold the magnitude reaches contributes
Ladder(bands, magnitude) == SumIncrements({b \in bands : magnitude >= b[1]})

(* C17: the score is the sum of three independent ladders, one per
   dimension: every band whose threshold the magnitude reaches adds its
   increment, the lower bands with the highest one, and the largest-leg
   ladder adds 1 more whenever the largest-leg magnitude is not 0. *)
C17_ScoreAdditiveLadders ==
    ret.fn = "scoreEvent" =>
        LET leg == LegMagnitude(args.biggestIn, args.biggestOut)
        IN  ret.value =   Ladder(SolBands, Abs(args.netSol))
                        + Ladder(StableBands, Abs(args.netStable))
                        + Ladder(LegBands, leg)
                        + (IF leg # 0 THEN 1 ELSE 0)

\* every dimension above its top band: 16 + 11 + 7
C17_Witness ==
    /\ ret.fn = "scoreEvent"
    /\ Abs(args.netSol) > 700 /\ Abs(args.netStable) > 1000
    /\ LegMagnitude(args.biggestIn, args.biggestOut) >= 1000000
    /\ ret.value = 34

\* the amounts of a list of native transfers, by index
NativeAmounts(ts) == [i \in DOMAIN ts |-> ts[i].amount]

(* C18: the native delta of a subject is the sum of the amounts it receives
   minus the sum of the amounts it sends, divided by 10^9 (here: the delta in
   hundredths of a SOL times 10^7 lamports is that sum), records without
   amount changing nothing; for W1 sending 2,000,000,000 lamports under
   minNative 0.25 it is -2.00, the native trigger fires and the event is
   emitted. *)
C18_NativeDelta ==
    ret.fn = "ledger" =>
        LET ts == args.e.nativeTransfers
            w == args.wallet
        IN  /\ ret.netSol * (LAMPORTS_PER_SOL \div 100) =
                    SumAt(NativeAmounts(ts),
                          {i \in DOMAIN ts : ts[i].toUserAccount = w})
                  - SumAt(NativeAmounts(ts),
                          {i \in DOMAIN ts : ts[i].fromUserAccount = w})
            /\ args.e = evBuy /\ w = "W1" =>
                  /\ ret.netSol = -200
                  /\ ret.triggersSol
                  /\ ret.outcome = "emit"

\* the accounting of W1 sending 2,000,000,000 lamports has returned
C18_Witness ==
    /\ ret.fn = "ledger"
    /\ args.e.nativeTransfers = <<Native("W1", "X", 2000000000)>>
    /\ args.wallet = "W1"
    /\ ret.netSol = -200 /\ ret.outcome = "emit"

IsStableTransfer(t) == t.mint \in STABLE_MINTS

\* the amounts of a list of token transfers, by index
TokenAmounts(ts) == [i \in DOMAIN ts |-> ts[i].tokenAmount]

(* C19: the stable delta of a subject is the sum of the amounts of the
   stable-mint transfers it receives minus the sum of those it sends, in
   display units without division; the transfers of any other mint change
   nothing: the delta is the one of the event with them taken out. *)
C19_StableDelta ==
    ret.fn = "ledger" =>
        LET ts == args.e.tokenTransfers
            w == args.wallet
            stable == {i \in DOMAIN ts : IsStableTransfer(ts[i])}
        IN  /\ ret.netStable =
                    SumAt(TokenAmounts(ts),
                          {i \in stable : ts[i].toUserAccount = w})
                  - SumAt(TokenAmounts(ts),
                          {i \in stable : ts[i].fromUserAccount = w})
            /\ ret.netStable =
                  computeNetStable(
                      [args.e EXCEPT !.tokenTransfers = SelectSeq(ts, IsStableTransfer)],
                      w)

\* the subject sent a stable transfer and received a transfer of another
\* token: only the stable one is in the delta
C19_Witness ==
    /\ ret.fn = "ledger"
    /\ args.e.tokenTransfers =
          <<Token("BONK", "X", "W1", 500), Token("USDC", "W1", "X", 100)>>
    /\ args.wallet = "W1"
    /\ ret.netStable = -100

(* C20: for every subject, an event whose native and token transfer lists
   are empty gives a native delta of 0, a stable delta of 0, no largest
   incoming leg and no largest outgoing leg. *)
C20_EmptyListsAllZero ==
    ret.fn = "ledger" /\ args.e.nativeTransfers = << >>
        /\ args.e.tokenTransfers = << >> =>
            /\ ret.netSol = 0
            /\ ret.netStable = 0
            /\ ret.biggestIn = NoLeg
            /\ ret.biggestOut = NoLeg

\* the accounting of an event with empty lists has returned for a subject
\* that is not the fee payer of the event
C20_Witness ==
    /\ ret.fn = "ledger"
    /\ args.e.nativeTransfers = << >> /\ args.e.tokenTransfers = << >>
    /\ args.wallet = "W2"
    /\ ret.netSol = 0 /\ ret.biggestIn = NoLeg

\* a transfer record whose sender and receiver are both w
IsSelfTransfer(t, w) == t.fromUserAccount = w /\ t.toUserAccount = w

\* the list without the records of index in I
RECURSIVE Without(_, _, _)
Without(ts, I, k) ==
    IF k > Len(ts) THEN << >>
    ELSE IF k \in I THEN Without(ts, I, k + 1)
    ELSE <<ts[k]>> \o Without(ts, I, k + 1)

(* C21: a transfer of the subject to itself counts on both sides: it is
   subtracted and added in the native and in the stable delta, so the deltas
   are those of the event without it, and it is a candidate for the largest
   incoming and for the largest outgoing leg; as the only token transfer,
   with amount 100, it is both largest legs. *)
C21_SelfTransferBothSides ==
    ret.fn = "ledger" =>
        LET w == args.wallet
            ns == args.e.nativeTransfers
            ts == args.e.tokenTransfers
            selfN == {i \in DOMAIN ns : IsSelfTransfer(ns[i], w)}
            selfT == {i \in DOMAIN ts : IsSelfTransfer(ts[i], w)}
        IN  /\ ret.netSol =
                  computeNetSol([args.e EXCEPT !.nativeTransfers = Without(ns, selfN, 1)], w)
            /\ ret.netStable =
                  computeNetStable([args.e EXCEPT !.tokenTransfers = Without(ts, selfT, 1)], w)
            /\ \A i \in selfT :
                  ts[i].mint # "" /\ ts[i].tokenAmount > 0 =>
                    /\ ret.biggestIn.amt >= ts[i].tokenAmount
                    /\ ret.biggestOut.amt >= ts[i].tokenAmount
            /\ Len(ts) = 1 /\ selfT = {1} =>
                  /\ ret.biggestIn = [mint |-> ts[1].mint, amt |-> ts[1].tokenAmount]
                  /\ ret.biggestOut = ret.biggestIn

\* the accounting of W1 with 100 USDC from W1 to W1 as the only token
\* transfer and a native transfer of W1 to itself has returned
C21_Witness ==
    /\ ret.fn = "ledger"
    /\ args.wallet = "W1"
    /\ args.e.tokenTransfers = <<Token("USDC", "W1", "W1", 100)>>
    /\ args.e.nativeTransfers = <<Native("W1", "W1", 10000000)>>
    /\ ret.biggestIn = [mint |-> "USDC", amt |-> 100]
    /\ ret.biggestOut = [mint |-> "USDC", amt |-> 100]
    /\ ret.netStable = 0 /\ ret.netSol = 0

\* the leg of the first record of the greatest amount among the records of
\* index in I, null when there is none
FirstGreatest(ts, I) ==
    IF I = {} THEN NoLeg
    ELSE LET i == CHOOSE j \in I :
                    /\ \A k \in I : ts[j].tokenAmount >= ts[k].tokenAmount
                    /\ \A k \in I : k < j => ts[k].tokenAmount < ts[j].tokenAmount
         IN  [mint |-> ts[i].mint, amt |-> ts[i].tokenAmount]

\* the records that are token transfers: they name a mint and an amount
Transfers(ts) == {i \in DOMAIN ts : ts[i].mint # "" /\ ts[i].tokenAmount # 0}

(* C22: the largest incoming leg is the token transfer of the greatest
   amount among those the subject receives, the largest outgoing leg the
   greatest among those it sends, stable mint or not; of several transfers of
   the same greatest amount the first in the list is kept. *)
C22_LargestLegsFirstOfTies ==
    ret.fn = "ledger" =>
        LET w == args.wallet
            ts == args.e.tokenTransfers
        IN  /\ ret.biggestIn =
                  FirstGreatest(ts, {i \in Transfers(ts) : ts[i].toUserAccount = w})
            /\ ret.biggestOut =
                  FirstGreatest(ts, {i \in Transfers(ts) : ts[i].fromUserAccount = w})

\* two incoming transfers of the same amount: the first one is the leg
C22_Witness ==
    /\ ret.fn = "ledger"
    /\ args.wallet = "W1"
    /\ args.e.tokenTransfers =
          <<Token("WIF", "X", "W1", 500), Token("BONK", "X", "W1", 500)>>
    /\ ret.biggestIn = [mint |-> "WIF", amt |-> 500]
    /\ ret.biggestOut = NoLeg

(* C23: a batch is processed to completion: an invocation that entered the
   loop ends with the summary (status 200), after its last event or when the
   emitted count has reached the cap. *)
C23_BatchRunsToSummary ==
    \A h \in Handlers :
        req[h].pc = "done" /\ Len(req[h].events) > 0 =>
            /\ req[h].status = 200
            /\ \/ req[h].idx > Len(req[h].events)
               \/ CapReached(req[h].sent)

(* C24: when a batch completes normally its counters are consistent:
   received >= type-matched >= tracked, and tracked = cooled + filtered +
   emitted; an event of a tracked actor that is cooling down is counted as
   cooled and not as filtered, whatever its triggers. *)
C24_CountersConsistent ==
    [][ \A h \in Handlers :
          /\ req'[h].pc = "done" /\ req'[h].status = 200 =>
                /\ req'[h].received >= req'[h].matchedType
                /\ req'[h].matchedType >= req'[h].matchedTracked
                /\ req'[h].matchedTracked =
                      req'[h].cooled + req'[h].filtered + req'[h].sent
          /\ Examines(h) /\ Tracked(h) /\ Cooling(h) =>
                /\ req'[h].cooled = req[h].cooled + 1
                /\ req'[h].filtered = req[h].filtered
                /\ req'[h].sent = req[h].sent ]_vars

\* a batch of two events of the same actor has ended with the summary: the
\* first was emitted, the second, trigger-worthy too, was cooled
C24_Witness ==
    \E h \in Handlers :
        /\ req[h].pc = "done" /\ req[h].status = 200
        /\ req[h].received = 2 /\ req[h].matchedTracked = 2
        /\ req[h].sent = 1 /\ req[h].cooled = 1 /\ req[h].filtered = 0
        /\ Admitted(req[h].events[2], extractFeePayer(req[h].events[2]))

(* C25: the action of an emitted alert follows the sign of the native delta
   alone: BUY exactly when it is negative, SELL exactly when it is positive,
   SWAP exactly when it is 0, whatever the stable delta and the legs. *)
C25_ActionBySignOfNativeDelta ==
    [][ \A h \in Handlers :
          Emits(h) /\ env.DISCORD_WEBHOOK_URL # "" =>
            LET p == posted'[Len(posted')]
                d == computeNetSol(Cur(h), CurActor(h))
            IN  /\ Len(posted') = Len(posted) + 1
                /\ p.actionLabel = "BUY" <=> d < 0
                /\ p.actionLabel = "SELL" <=> d > 0
                /\ p.actionLabel = "SWAP" <=> d = 0 ]_vars

\* an alert of an event without native movement and with a stable movement
\* is on its way as SWAP, after one that went out as BUY
C25_Witness ==
    \E h \in Handlers :
        /\ req[h].pc = "await"
        /\ computeNetSol(Cur(h), CurActor(h)) = 0
        /\ computeNetStable(Cur(h), CurActor(h)) # 0
        /\ Len(posted) = 2
        /\ posted[1].actionLabel = "BUY"
        /\ posted[2].actionLabel = "SWAP"

\* the score of the event h is about to examine, for its actor
CurScore(h) ==
    LET legs == summarizeTokenLegs(Cur(h), CurActor(h))
    IN  scoreEvent(computeNetSol(Cur(h), CurActor(h)),
                   computeNetStable(Cur(h), CurActor(h)),
                   legs.biggestIn, legs.biggestOut)

(* C26: an emitted alert carries the role mention exactly when a role is
   configured and the score of the event is at least PING_SCORE; the score
   plays no part elsewhere: an event is emitted exactly when its actor is
   tracked, not cooling down and a trigger is true, and after a send that
   did not throw the cooldown is recorded and the alert counted, whatever the
   score. *)
C26_PingByRoleAndScore ==
    [][ \A h \in Handlers :
          /\ Emits(h) =>
                /\ Len(posted') = Len(posted) + 1
                /\ posted'[Len(posted')].ping <=>
                      (env.PING_ROLE_ID # "" /\ CurScore(h) >= env.PING_SCORE)
          /\ Examines(h) =>
                (Emits(h) <=> Tracked(h) /\ ~Cooling(h) /\ AnyTrigger(h))
          /\ req[h].pc = "await" /\ req'[h].pc # "await" /\ req'[h].status # 500 =>
                /\ lastAlertAt' = markAlert(lastAlertAt, CurActor(h), now)
                /\ req'[h].sent = req[h].sent + 1
                /\ req'[h].cooled = req[h].cooled
                /\ req'[h].filtered = req[h].filtered ]_vars

\* with a role configured, an alert of a score at PING_SCORE went out with
\* the mention and one of a lower score without it; both were recorded
C26_Witness ==
    /\ env.PING_ROLE_ID # ""
    /\ Len(posted) = 2
    /\ posted[1].score = env.PING_SCORE /\ posted[1].ping
    /\ posted[2].score < env.PING_SCORE /\ ~posted[2].ping
    /\ DOMAIN lastAlertAt = {posted[1].wallet, posted[2].wallet}
    /\ posted[1].wallet # posted[2].wallet

(* C27: the keys of the cooldown map are addresses of the watch list, before
   and after every step; no step removes a key; and, the clock not going
   back, no step lowers the time stored for an address. *)
C27_CooldownKeysTracked ==
    [][ /\ DOMAIN lastAlertAt \subseteq TrackedWallets
        /\ DOMAIN lastAlertAt' \subseteq TrackedWallets
        /\ DOMAIN lastAlertAt \subseteq DOMAIN lastAlertAt'
        /\ now' >= now =>
              \A a \in DOMAIN lastAlertAt : lastAlertAt'[a] >= lastAlertAt[a] ]_vars

\* a watched address was alerted twice, the second time later, and its entry
\* was overwritten with the later time
C27_Witness ==
    /\ Len(posted) = 2
    /\ posted[1].wallet = posted[2].wallet
    /\ posted[2].at > posted[1].at
    /\ DOMAIN lastAlertAt = {posted[1].wallet}
    /\ lastAlertAt[posted[1].wallet] = posted[2].at

(* C28: the cooldown is kept per address. The step that ends the send of
   an alert of address A, and records it, leaves the entry of every other address B as it was, and with
   it the answer of isCoolingDown for B; an event is counted as cooled only
   when the map holds an entry of its own actor that is younger than the
   window. *)
C28_CooldownPerAddress ==
    [][ /\ \A h \in Handlers :
              req[h].pc = "await" /\ req'[h].pc # "await" =>
                  \A b \in TrackedWallets \ {CurActor(h)} :
                      /\ b \in DOMAIN lastAlertAt' <=> b \in DOMAIN lastAlertAt
                      /\ LastOf(lastAlertAt', b) = LastOf(lastAlertAt, b)
                      /\ isCoolingDown(lastAlertAt', b, now, env.COOLDOWN_SECONDS)
                           = isCoolingDown(lastAlertAt, b, now, env.COOLDOWN_SECONDS)
        /\ \A h \in Handlers :
              Examines(h) /\ req'[h].cooled = req[h].cooled + 1 =>
                  /\ CurActor(h) \in DOMAIN lastAlertAt
                  /\ now - lastAlertAt[CurActor(h)] < env.COOLDOWN_SECONDS ]_vars

\* with the cooldown enabled, an alert of one watched address was followed
\* within the window by an alert of another: the second was not suppressed
C28_Witness ==
    /\ env.COOLDOWN_SECONDS > 0
    /\ Len(posted) = 2
    /\ posted[1].wallet # posted[2].wallet
    /\ posted[2].at - posted[1].at < env.COOLDOWN_SECONDS
    /\ DOMAIN lastAlertAt = {posted[1].wallet, posted[2].wallet}
    /\ lastAlertAt[posted[1].wallet] = posted[1].at
    /\ lastAlertAt[posted[2].wallet] = posted[2].at

\* the mint the run r is at
CurMint(r) == bmEnv.BM_MINTS[run[r].idx]

\* the run r hands a post to fetch in this step
Posts(r) == run[r].pc = "fetch" /\ run'[r].pc = "post"

(* C29: in the big-moves job, for any interleaving of overlapping runs:
   a post of a mint is handed out only when every earlier post of that mint
   is at least 120 minutes old, and in the step that hands it out the time
   of the mint is already written; the map is written only by a run whose
   mint passed the three thresholds, for that mint and with the time of the
   step; and no other step, the end of a post that failed included, changes
   the map. *)
C29_PostsCooldownApart ==
    [][ /\ \A r \in Runs :
              Posts(r) =>
                  /\ \A p \in bmLog :
                        p.key = CurMint(r) =>
                            nowMs - p.at >= COOLDOWN_MINUTES * 60 * 1000
                  /\ bmLog' = bmLog \cup {[key |-> CurMint(r), at |-> nowMs]}
                  /\ CurMint(r) \in DOMAIN lastPosted'
                  /\ lastPosted'[CurMint(r)] = nowMs
        /\ lastPosted' # lastPosted =>
              \E r \in Runs :
                  /\ run[r].pc = "fetch"
                  /\ run'[r].best # NoPair
                  /\ run'[r].best.usd >= MIN_LP_USD
                  /\ run'[r].best.h24 >= MIN_VOL_24H
                  /\ run'[r].best.h1 >= MIN_CHANGE_1H
                  /\ lastPosted' = setLastPosted(lastPosted, CurMint(r), nowMs)
        /\ \A r \in Runs :
              run[r].pc = "post" /\ run'[r].pc # "post" =>
                  lastPosted' = lastPosted ]_vars

\* a mint was posted twice, 120 minutes apart, by overlapping runs, and the
\* second post failed: its run ended with 500 and the entry of the mint
\* holds the time of that post
C29_Witness ==
    /\ \E p, q \in bmLog :
          /\ p.key = "M1" /\ q.key = "M1"
          /\ q.at - p.at = COOLDOWN_MINUTES * 60 * 1000
          /\ "M1" \in DOMAIN lastPosted
          /\ lastPosted["M1"] = q.at
    /\ \E r \in Runs :
          /\ run[r].pc = "done" /\ run[r].status = 500
          /\ run[r].idx = 1 /\ run[r].best # NoPair
          /\ bmEnv.BM_MINTS[1] = "M1"
    /\ \E r \in Runs : run[r].pc = "fetch"

=============================================================================
